---- MODULE Spec2Model ----
(***************************************************************************)
(* Model of Rare's application bootstrap / session renewal (rare/app.py)   *)
(* and of the storefront data models (rare/components/tabs/shop/           *)
(* shop_models.py).                                                        *)
(*                                                                         *)
(* Strings whose characters matter (paths, prices, tags) are sequences of  *)
(* one-character strings.  Times are integers in milliseconds.             *)
(***************************************************************************)
EXTENDS Integers, Sequences, FiniteSets, TLC

VARIABLES
    loopPc,       \* position of start(): "top", "exec", "teardown", "test", "done"
    uiPc,         \* position of the UI thread inside exit_app, "idle" otherwise
    iters,        \* number of App constructions so far
    coreAlive,    \* LegendaryCoreSingleton initialised and not yet exited
    coreExits,    \* number of core.exit() calls so far
    exitCode,     \* <<>> while running, <<code>> once exec_() has returned
    exitArg,      \* the exit_code argument of the running exit_app
    args,         \* [silent, test_start]
    userdata,     \* core.lgd.userdata: [expires_at |-> stamp]
    lastDelta,    \* last expiry delta computed: [site, exp, now, delay]
    pending,      \* scheduled firings of the re-authentication timer (intervals, ms)
    timerObj,     \* self.timer: "unset", "live" or "None"
    lastOp,       \* name of the last handler that ran
    installed,    \* core.lgd installed-game store: app_name -> record
    disk,         \* file system and config facts per app_name
    sweepLog,     \* what the start_app sweep did: [uninstalled, checked, persisted]
    mainwindow,   \* self.mainwindow: "None", "shown", "hidden"
    tasks,        \* running tasks of QThreadPool.globalInstance()
    singletons,   \* [signals, args, api_results]: BOOLEAN each
    tmpDir,       \* "used" or "empty"
    teardownLog,  \* steps of exit_app performed, in order
    hook,         \* outcome of the last excepthook call
    shopIn,       \* inputs of ShopGame.from_json
    shopOut,      \* its result
    browseIn,     \* a BrowseModel
    browseOut     \* its __dict__

appVars == <<loopPc, uiPc, iters, coreAlive, coreExits, exitCode, exitArg, args,
             userdata, lastDelta, pending, timerObj, lastOp, installed, disk,
             sweepLog, mainwindow, tasks, singletons, tmpDir, teardownLog, hook>>
shopVars == <<shopIn, shopOut>>
browseVars == <<browseIn, browseOut>>
vars == <<appVars, shopVars, browseVars>>

----------------------------------------------------------------------------
(* Bounds *)
MaxTick == 4        \* time stamps are 0 .. MaxTick * StepMs
StepMs == 20500     \* granularity of the time stamps drawn, in ms
MaxRuns == 2        \* App constructions (restarts) explored
MaxTasks == 1       \* background tasks running at once

(* Program constants *)
RestartCode == -133742
RetryMs == 3000
LeadSeconds == 60

Times == {i * StepMs : i \in 0..MaxTick}
ExitCodes == {0, 1, RestartCode}

----------------------------------------------------------------------------
(* Expiry delta *)

Abs(x) == IF x < 0 THEN -x ELSE x

\* Python's int() on a float: truncation toward zero.  n / d with d > 0.
TruncDiv(n, d) == IF n >= 0 THEN n \div d ELSE -((-n) \div d)

\* userdata['expires_at'] is an ISO-8601 text with a trailing zone marker.
Stamp(t) == <<t, "Z">>

\* datetime.fromisoformat(s[:-1])
ParseExpiry(s) == SubSeq(s, 1, Len(s) - 1)[1]

\* td = abs(dt_exp - dt_now); int(td.total_seconds() - 60) * 1000
ExpiryDelay(exp, now) ==
    TruncDiv(Abs(exp - now) - LeadSeconds * 1000, 1000) * 1000

\* a start that schedules a further firing without cancelling the scheduled one
TimerStart_Stacking(p, msec) == IF msec >= 0 THEN Append(p, msec) ELSE p

\* QTimer.start(msec) on a timer whose scheduled firings are p: an active timer
\* is stopped and restarted; a negative interval is refused by Qt and nothing
\* is scheduled.
TimerStart(p, msec) == IF msec >= 0 THEN <<msec>> ELSE <<>>

----------------------------------------------------------------------------
(* Installed-game sweep of App.start_app *)

NumGames == 2       \* installed-game records in the store at start

Apps == 1..NumGames

\* str.replace(old, new) for one-character old and new
ReplaceChar(s, old, new) == [i \in 1..Len(s) |-> IF s[i] = old THEN new ELSE s[i]]

\* str.lstrip(ch): every leading ch is removed
RECURSIVE LStrip(_, _)
LStrip(s, ch) == IF s # <<>> /\ Head(s) = ch THEN LStrip(Tail(s), ch) ELSE s

\* igame_executable.replace("\\", "/").lstrip("/")
NormalizeExe(exe) == LStrip(ReplaceChar(exe, "\\", "/"), "/")

\* os.path.exists(os.path.join(igame.install_path, rel)) for an existing
\* install path: joining the empty string names the directory itself.
ExistsUnder(d, rel) == d.path_exists /\ (rel = <<>> \/ rel \in d.files)

\* the override ignored
EffectiveExe_NoOverride(igame, d) == igame.executable

\* if override_exe := config.get(app_name, "override_exe", fallback=""): ... else ...
EffectiveExe(igame, d) ==
    IF d.override_exe # <<>> THEN d.override_exe ELSE igame.executable

\* legendary_utils.uninstall_game(core, app_name, keep_files): the record leaves
\* the store; the files are deleted unless keep_files.
UninstallGame(st, app, keep_files) ==
    [st EXCEPT !.installed = [a \in (DOMAIN st.installed) \ {app} |-> st.installed[a]],
               !.disk = IF keep_files THEN st.disk
                        ELSE [st.disk EXCEPT ![app].files = {}, ![app].path_exists = FALSE],
               !.log.uninstalled = Append(@, [app |-> app, keep_files |-> keep_files])]

\* the loop body deleting the files of the record it uninstalls
SweepOne_DeletesFiles(st, app) ==
    LET igame == st.installed[app]
        d == st.disk[app]
    IN  IF ~d.path_exists
        THEN UninstallGame(st, app, FALSE)
        ELSE LET rel == NormalizeExe(EffectiveExe(igame, d))
                 st1 == [st EXCEPT !.log.checked = Append(@, app)]
             IN  IF ~ExistsUnder(d, rel)
                 THEN [st1 EXCEPT !.installed[app].needs_verification = TRUE,
                                  !.log.persisted = Append(@, app)]
                 ELSE st1

\* One iteration of the loop body of start_app for record app.
SweepOne(st, app) ==
    LET igame == st.installed[app]
        d == st.disk[app]
    IN  IF ~d.path_exists
        THEN UninstallGame(st, app, TRUE)
        ELSE LET rel == NormalizeExe(EffectiveExe(igame, d))
                 st1 == [st EXCEPT !.log.checked = Append(@, app)]
             IN  IF ~ExistsUnder(d, rel)
                 THEN [st1 EXCEPT !.installed[app].needs_verification = TRUE,
                                  !.log.persisted = Append(@, app)]
                 ELSE st1

\* for igame in self.core.get_installed_list(): ...
RECURSIVE SweepFrom(_, _)
SweepFrom(st, todo) ==
    IF todo = <<>> THEN st ELSE SweepFrom(SweepOne(st, Head(todo)), Tail(todo))

RECURSIVE SortedSeq(_)
SortedSeq(S) ==
    IF S = {} THEN <<>>
    ELSE LET m == CHOOSE x \in S : \A y \in S : x <= y
         IN  <<m>> \o SortedSeq(S \ {m})

\* core.get_installed_list()
InstalledList(store) == SortedSeq(DOMAIN store)

EmptySweepLog == [uninstalled |-> <<>>, checked |-> <<>>, persisted |-> <<>>]

Sweep(store, dk) ==
    SweepFrom([installed |-> store, disk |-> dk, log |-> EmptySweepLog],
              InstalledList(store))

----------------------------------------------------------------------------
(* Inputs of the sweep *)

Overrides == {<<>>, <<"\\", "a">>}
Executables == {<<"/", "a">>, <<"b">>, <<"a", "\\", "b">>}
FileSets == {{}, {<<"a">>}, {<<"b">>, <<"a", "/", "b">>}}

IGames == [executable : Executables, needs_verification : BOOLEAN]

\* A missing install directory holds no files.
DiskFacts ==
    {d \in [path_exists : BOOLEAN, files : FileSets, override_exe : Overrides] :
        ~d.path_exists => d.files = {}}

\* The store and disk the lifecycle specification starts from.
PlainGame == [executable |-> <<"b">>, needs_verification |-> FALSE]
PlainDisks ==
    {d \in DiskFacts : d.override_exe = <<>> /\ d.files = {}}

----------------------------------------------------------------------------
(* start(): the outer loop, and App.__init__ *)

NoHook == [exc_type |-> "none", login |-> "none", logins |-> 0, shown |-> "none",
           fatal |-> FALSE, exited |-> <<>>]

\* while True: core = LegendaryCoreSingleton(init=True); init_config_handler(core);
\* app = App(args)   -- App.__init__ logs in and arms the timer; exec_() follows.
Construct ==
    /\ loopPc = "top"
    /\ iters < MaxRuns
    /\ \E exp \in Times, now \in Times :
          LET stamp == Stamp(exp)
              delay == ExpiryDelay(ParseExpiry(stamp), now)
          IN  /\ userdata' = [expires_at |-> stamp]
              /\ lastDelta' = [site |-> "init", exp |-> exp, now |-> now, delay |-> delay]
              /\ pending' = TimerStart(<<>>, delay)
    /\ timerObj' = "live"
    /\ coreAlive' = TRUE
    /\ singletons' = [signals |-> TRUE, args |-> TRUE, api_results |-> TRUE]
    /\ mainwindow' = "None"
    /\ iters' = iters + 1
    /\ exitCode' = <<>>
    /\ teardownLog' = <<>>
    /\ sweepLog' = EmptySweepLog
    /\ hook' = NoHook
    /\ loopPc' = "exec"
    /\ uiPc' = "idle"
    /\ lastOp' = "init"
    /\ UNCHANGED <<coreExits, exitArg, args, installed, disk, tasks, tmpDir>>
    /\ UNCHANGED <<shopVars, browseVars>>

\* del app; core.exit(); clear_singleton_instance(core)
Teardown ==
    /\ loopPc = "teardown"
    /\ coreAlive' = FALSE
    /\ coreExits' = coreExits + 1
    /\ loopPc' = "test"
    /\ lastOp' = "teardown"
    /\ UNCHANGED <<uiPc, iters, exitCode, exitArg, args, userdata, lastDelta, pending,
                   timerObj, installed, disk, sweepLog, mainwindow, tasks, singletons,
                   tmpDir, teardownLog, hook>>
    /\ UNCHANGED <<shopVars, browseVars>>

\* the test inverted
LoopEnds_Inverted(code) == code = RestartCode

\* if exit_code != -133742: break
LoopEnds(code) == code # RestartCode

TestExitCode ==
    /\ loopPc = "test"
    /\ loopPc' = IF LoopEnds(exitCode[1]) THEN "done" ELSE "top"
    /\ lastOp' = "test"
    /\ UNCHANGED <<uiPc, iters, coreAlive, coreExits, exitCode, exitArg, args, userdata,
                   lastDelta, pending, timerObj, installed, disk, sweepLog, mainwindow,
                   tasks, singletons, tmpDir, teardownLog, hook>>
    /\ UNCHANGED <<shopVars, browseVars>>

\* The event loop of exec_() dispatches a handler only between handlers.
Dispatching == loopPc = "exec" /\ uiPc = "idle"

----------------------------------------------------------------------------
(* App.re_login, the slot of timer.timeout *)

\* core.login() succeeded: the session holds a new expiry; the delta is
\* recomputed and the timer restarted.
ReLoginRenewed ==
    /\ Dispatching
    /\ pending # <<>>
    /\ \E exp \in Times, now \in Times :
          LET stamp == Stamp(exp)
              delay == ExpiryDelay(ParseExpiry(stamp), now)
          IN  /\ userdata' = [expires_at |-> stamp]
              /\ lastDelta' = [site |-> "re_login", exp |-> exp, now |-> now,
                               delay |-> delay]
              /\ pending' = TimerStart(pending, delay)
    /\ lastOp' = "re_login"
    /\ UNCHANGED <<loopPc, uiPc, iters, coreAlive, coreExits, exitCode, exitArg, args,
                   timerObj, installed, disk, sweepLog, mainwindow, tasks, singletons,
                   tmpDir, teardownLog, hook>>
    /\ UNCHANGED <<shopVars, browseVars>>

\* the except branch without its return: the delta is recomputed from the
\* stale expiry and the timer re-armed with it
ReLoginConnectionError_FallsThrough ==
    /\ Dispatching
    /\ pending # <<>>
    /\ \E now \in Times :
          LET exp == ParseExpiry(userdata.expires_at)
              delay == ExpiryDelay(exp, now)
          IN  /\ lastDelta' = [site |-> "re_login", exp |-> exp, now |-> now,
                               delay |-> delay]
              /\ pending' = TimerStart(TimerStart(pending, RetryMs), delay)
    /\ lastOp' = "re_login_connection_error"
    /\ UNCHANGED <<loopPc, uiPc, iters, coreAlive, coreExits, exitCode, exitArg, args,
                   userdata, timerObj, installed, disk, sweepLog, mainwindow,
                   tasks, singletons, tmpDir, teardownLog, hook>>
    /\ UNCHANGED <<shopVars, browseVars>>

\* core.login() raised requests.exceptions.ConnectionError
ReLoginConnectionError ==
    /\ Dispatching
    /\ pending # <<>>
    /\ pending' = TimerStart(pending, RetryMs)
    /\ lastOp' = "re_login_connection_error"
    /\ UNCHANGED <<loopPc, uiPc, iters, coreAlive, coreExits, exitCode, exitArg, args,
                   userdata, lastDelta, timerObj, installed, disk, sweepLog, mainwindow,
                   tasks, singletons, tmpDir, teardownLog, hook>>
    /\ UNCHANGED <<shopVars, browseVars>>

----------------------------------------------------------------------------
(* App.start_app, the slot of launch_dialog.start_app *)

StartApp ==
    /\ Dispatching
    /\ mainwindow = "None"
    /\ LET r == Sweep(installed, disk)
       IN  /\ installed' = r.installed
           /\ disk' = r.disk
           /\ sweepLog' = r.log
    /\ mainwindow' = IF args.silent THEN "hidden" ELSE "shown"
    /\ IF args.test_start
       THEN uiPc' = "wait" /\ exitArg' = 0      \* self.exit_app(0)
       ELSE UNCHANGED <<uiPc, exitArg>>
    /\ lastOp' = "start_app"
    /\ UNCHANGED <<loopPc, iters, coreAlive, coreExits, exitCode, args, userdata,
                   lastDelta, pending, timerObj, tasks, singletons, tmpDir,
                   teardownLog, hook>>
    /\ UNCHANGED <<shopVars, browseVars>>

----------------------------------------------------------------------------
(* The global thread pool *)

\* A handler of the main window starts a background task.
TaskStart ==
    /\ Dispatching
    /\ mainwindow # "None"
    /\ tasks < MaxTasks
    /\ tasks' = tasks + 1
    /\ lastOp' = "task_start"
    /\ UNCHANGED <<loopPc, uiPc, iters, coreAlive, coreExits, exitCode, exitArg, args,
                   userdata, lastDelta, pending, timerObj, installed, disk,
                   sweepLog, mainwindow, singletons, tmpDir, teardownLog, hook>>
    /\ UNCHANGED <<shopVars, browseVars>>

\* A background task runs to its end on a pool thread; it may leave files in
\* the temp directory.
TaskFinish ==
    /\ tasks > 0
    /\ tasks' = tasks - 1
    /\ tmpDir' \in {tmpDir, "used"}
    /\ lastOp' = "task_finish"
    /\ UNCHANGED <<loopPc, uiPc, iters, coreAlive, coreExits, exitCode, exitArg, args,
                   userdata, lastDelta, pending, timerObj, installed, disk,
                   sweepLog, mainwindow, singletons, teardownLog, hook>>
    /\ UNCHANGED <<shopVars, browseVars>>

----------------------------------------------------------------------------
(* App.exit_app, the slot of mainwindow.exit_app *)

\* The main window emits exit_app(exit_code).
ExitAppCalled ==
    /\ Dispatching
    /\ mainwindow # "None"
    /\ \E code \in ExitCodes : exitArg' = code
    /\ uiPc' = "wait"
    /\ lastOp' = "exit_app"
    /\ UNCHANGED <<loopPc, iters, coreAlive, coreExits, exitCode, args, userdata,
                   lastDelta, pending, timerObj, installed, disk, sweepLog, mainwindow,
                   tasks, singletons, tmpDir, teardownLog, hook>>
    /\ UNCHANGED <<shopVars, browseVars>>

\* a wait that returns at once
PoolDone_NoWait == TRUE

\* threadpool.waitForDone() returns once no task of the pool is running.
PoolDone == tasks = 0

ExitWaitForDone ==
    /\ uiPc = "wait"
    /\ PoolDone
    /\ teardownLog' = Append(teardownLog, "waitForDone")
    /\ uiPc' = "timer"
    /\ lastOp' = "exit_app_wait"
    /\ UNCHANGED <<loopPc, iters, coreAlive, coreExits, exitCode, exitArg, args, userdata,
                   lastDelta, pending, timerObj, installed, disk, sweepLog,
                   mainwindow, tasks, singletons, tmpDir, hook>>
    /\ UNCHANGED <<shopVars, browseVars>>

\* if self.timer is not None: stop(); deleteLater(); self.timer = None
ExitStopTimer ==
    /\ uiPc = "timer"
    /\ IF timerObj # "None"
       THEN /\ pending' = <<>>
            /\ timerObj' = "None"
            /\ teardownLog' = Append(teardownLog, "timer")
       ELSE UNCHANGED <<pending, timerObj, teardownLog>>
    /\ uiPc' = "window"
    /\ lastOp' = "exit_app_timer"
    /\ UNCHANGED <<loopPc, iters, coreAlive, coreExits, exitCode, exitArg, args, userdata,
                   lastDelta, installed, disk, sweepLog, mainwindow, tasks,
                   singletons, tmpDir, hook>>
    /\ UNCHANGED <<shopVars, browseVars>>

\* if self.mainwindow is not None: close(); self.mainwindow = None
ExitCloseWindow ==
    /\ uiPc = "window"
    /\ IF mainwindow # "None"
       THEN /\ mainwindow' = "None"
            /\ teardownLog' = Append(teardownLog, "mainwindow")
       ELSE UNCHANGED <<mainwindow, teardownLog>>
    /\ uiPc' = "singletons"
    /\ lastOp' = "exit_app_window"
    /\ UNCHANGED <<loopPc, iters, coreAlive, coreExits, exitCode, exitArg, args, userdata,
                   lastDelta, pending, timerObj, installed, disk, sweepLog, tasks,
                   singletons, tmpDir, hook>>
    /\ UNCHANGED <<shopVars, browseVars>>

\* clear_singleton_instance(signals / args / ApiResultsSingleton()); processEvents()
ExitClearSingletons ==
    /\ uiPc = "singletons"
    /\ singletons' = [signals |-> FALSE, args |-> FALSE, api_results |-> FALSE]
    /\ teardownLog' = Append(teardownLog, "singletons")
    /\ uiPc' = "tmp"
    /\ lastOp' = "exit_app_singletons"
    /\ UNCHANGED <<loopPc, iters, coreAlive, coreExits, exitCode, exitArg, args, userdata,
                   lastDelta, pending, timerObj, installed, disk, sweepLog,
                   mainwindow, tasks, tmpDir, hook>>
    /\ UNCHANGED <<shopVars, browseVars>>

\* shutil.rmtree(tmp_dir); os.makedirs(tmp_dir)
ExitResetTmp ==
    /\ uiPc = "tmp"
    /\ tmpDir' = "empty"
    /\ teardownLog' = Append(teardownLog, "tmp_dir")
    /\ uiPc' = "exit"
    /\ lastOp' = "exit_app_tmp"
    /\ UNCHANGED <<loopPc, iters, coreAlive, coreExits, exitCode, exitArg, args, userdata,
                   lastDelta, pending, timerObj, installed, disk, sweepLog,
                   mainwindow, tasks, singletons, hook>>
    /\ UNCHANGED <<shopVars, browseVars>>

\* self.exit(exit_code): exec_() returns exit_code
ExitQuit ==
    /\ uiPc = "exit"
    /\ exitCode' = <<exitArg>>
    /\ teardownLog' = Append(teardownLog, "exit")
    /\ uiPc' = "idle"
    /\ loopPc' = "teardown"
    /\ lastOp' = "exit_app_exit"
    /\ UNCHANGED <<iters, coreAlive, coreExits, exitArg, args, userdata, lastDelta,
                   pending, timerObj, installed, disk, sweepLog, mainwindow,
                   tasks, singletons, tmpDir, hook>>
    /\ UNCHANGED <<shopVars, browseVars>>

----------------------------------------------------------------------------
(* excepthook, installed as sys.excepthook by start() *)

HTTPError == "HTTPError"
ExcTypes == {HTTPError, "ValueError"}

\* exc_tb is the traceback object of the exception, never a class.
Tracebacks == {"traceback"}

\* if exc_tb == HTTPError:
IsAuthError(exc_type, exc_tb) == exc_tb = HTTPError

Excepthook ==
    /\ Dispatching
    /\ \E exc_type \in ExcTypes, exc_tb \in Tracebacks, login \in {"ok", "fail"},
          exp \in Times :
          IF IsAuthError(exc_type, exc_tb)
          THEN IF login = "ok"
               THEN /\ hook' = [exc_type |-> exc_type, login |-> login, logins |-> 1, shown |-> "none",
                                fatal |-> FALSE, exited |-> <<>>]
                    /\ userdata' = [expires_at |-> Stamp(exp)]
                    /\ UNCHANGED <<exitCode, loopPc>>
               ELSE /\ hook' = [exc_type |-> exc_type, login |-> login, logins |-> 1,
                                shown |-> "Failed to login", fatal |-> TRUE,
                                exited |-> <<1>>]
                    /\ exitCode' = <<1>>
                    /\ loopPc' = "teardown"
                    /\ UNCHANGED userdata
          ELSE /\ hook' = [exc_type |-> exc_type, login |-> login, logins |-> 0, shown |-> "traceback",
                           fatal |-> TRUE, exited |-> <<1>>]
               /\ exitCode' = <<1>>
               /\ loopPc' = "teardown"
               /\ UNCHANGED userdata
    /\ lastOp' = "excepthook"
    /\ UNCHANGED <<uiPc, iters, coreAlive, coreExits, exitArg, args, lastDelta, pending,
                   timerObj, installed, disk, sweepLog, mainwindow, tasks, singletons,
                   tmpDir, teardownLog>>
    /\ UNCHANGED <<shopVars, browseVars>>

----------------------------------------------------------------------------
(* Values the variables of the other specifications hold *)

NoShop == [status |-> "unused"]
NoBrowse == [status |-> "unused"]

AppIdle ==
    /\ loopPc = "top"
    /\ uiPc = "idle"
    /\ iters = 0
    /\ coreAlive = FALSE
    /\ coreExits = 0
    /\ exitCode = <<>>
    /\ exitArg = 0
    /\ userdata = [expires_at |-> <<>>]
    /\ lastDelta = [site |-> "none", exp |-> 0, now |-> 0, delay |-> 0]
    /\ pending = <<>>
    /\ timerObj = "unset"
    /\ lastOp = "none"
    /\ sweepLog = EmptySweepLog
    /\ mainwindow = "None"
    /\ tasks = 0
    /\ singletons = [signals |-> FALSE, args |-> FALSE, api_results |-> FALSE]
    /\ teardownLog = <<>>
    /\ hook = NoHook

----------------------------------------------------------------------------
(* The application lifecycle: start(args) is entered *)

Init ==
    /\ AppIdle
    /\ args \in [silent : BOOLEAN, test_start : BOOLEAN]
    /\ installed = [a \in Apps |-> PlainGame]
    /\ disk \in [Apps -> PlainDisks]
    /\ tmpDir \in {"used", "empty"}
    /\ shopIn = NoShop /\ shopOut = NoShop
    /\ browseIn = NoBrowse /\ browseOut = NoBrowse

Next ==
    \/ Construct
    \/ ReLoginRenewed
    \/ ReLoginConnectionError
    \/ StartApp
    \/ TaskStart
    \/ TaskFinish
    \/ ExitAppCalled
    \/ ExitWaitForDone
    \/ ExitStopTimer
    \/ ExitCloseWindow
    \/ ExitClearSingletons
    \/ ExitResetTmp
    \/ ExitQuit
    \/ Excepthook
    \/ Teardown
    \/ TestExitCode

Spec == Init /\ [][Next]_vars

----------------------------------------------------------------------------
(* Properties of the lifecycle, checked under Spec *)

\* C1: in every reachable state at most one firing of the re-authentication
\* timer is scheduled; re_login never leaves two firings outstanding.
C1_AtMostOnePendingTimer == Len(pending) <= 1

\* a renewal has just re-armed the timer, and exactly one firing is scheduled
C1_Witness == lastOp = "re_login" /\ Len(pending) = 1 /\ timerObj = "live"

\* C2: whenever the timer is armed after a login (in __init__ or by re_login)
\* its delay equals expires_at - now - 60 seconds.
C2_DelayIsExpiryMinusNowMinus60 ==
    lastDelta.site \in {"init", "re_login"} =>
        lastDelta.delay = lastDelta.exp - lastDelta.now - LeadSeconds * 1000

\* C3: a re_login that meets a connection error re-arms the timer to fire in
\* exactly 3000 ms, recomputes no expiry delta, is not fatal, and leaves the
\* stored expiry, the installed-game records and the main window unchanged --
\* at every such step, hence for any number of consecutive errors.
C3_ConnectionErrorRetries ==
    [][lastOp' = "re_login_connection_error" =>
          /\ pending' = <<RetryMs>>
          /\ lastDelta' = lastDelta
          /\ userdata' = userdata
          /\ installed' = installed
          /\ mainwindow' = mainwindow
          /\ loopPc' = loopPc
          /\ exitCode' = exitCode
          /\ hook' = hook]_vars

\* a connection error has followed a successful renewal; the retry is scheduled
C3_Witness ==
    /\ lastOp = "re_login_connection_error"
    /\ lastDelta.site = "re_login"
    /\ pending = <<RetryMs>>
    /\ loopPc = "exec"

ExitOrder == <<"waitForDone", "timer", "mainwindow", "singletons", "tmp_dir", "exit">>

IsPrefix(s, t) == Len(s) <= Len(t) /\ s = SubSeq(t, 1, Len(s))

\* C6: exit_app performs its steps in the order drain pool, release timer, close
\* main window, clear singletons, reset temp directory, exit; nothing is
\* released before the pool is drained, and no task runs during the teardown.
C6_DrainBeforeTeardown ==
    /\ IsPrefix(teardownLog, ExitOrder)
    /\ (uiPc \in {"timer", "window", "singletons", "tmp", "exit"} => tasks = 0)
    /\ (teardownLog # <<>> => tasks = 0)
    /\ (timerObj = "None" => Len(teardownLog) >= 2)
    /\ (loopPc = "exec" /\ ~singletons.signals => Len(teardownLog) >= 4)
    /\ (exitCode # <<>> /\ hook.exited = <<>> => teardownLog = ExitOrder)

\* exit_app has run to its end: every step of the order has been taken
C6_Witness ==
    /\ loopPc = "teardown"
    /\ teardownLog = ExitOrder
    /\ tmpDir = "empty" /\ timerObj = "None" /\ mainwindow = "None"

\* C7: start() repeats the lifecycle exactly while the exit code is -133742;
\* any other code ends the loop, and core.exit() has run in every iteration
\* before the code is tested.
C7_RestartExactlyOnSentinel ==
    /\ (loopPc = "done" => exitCode[1] # RestartCode)
    /\ (loopPc = "top" /\ iters > 0 => exitCode[1] = RestartCode)
    /\ (loopPc \in {"test", "done"} \/ (loopPc = "top" /\ iters > 0)
            => ~coreAlive /\ coreExits = iters)
    /\ (loopPc \in {"exec", "teardown"} => coreAlive /\ coreExits = iters - 1)

\* the lifecycle ran twice (one restart) and the loop then ended
C7_Witness == loopPc = "done" /\ iters = 2 /\ coreExits = 2

\* C8: an uncaught HTTP error makes excepthook attempt one silent re-login:
\* success returns without a message and without exiting, failure shows
\* 'Failed to login' and exits 1; any other exception is logged fatal, shown
\* and exits 1.
C8_AuthErrorTriesSilentLogin ==
    /\ (hook.exc_type = HTTPError =>
            /\ hook.logins = 1
            /\ (hook.login = "ok" => hook.shown = "none" /\ hook.exited = <<>>)
            /\ (hook.login = "fail" =>
                    hook.shown = "Failed to login" /\ hook.exited = <<1>>))
    /\ (hook.exc_type \notin {HTTPError, "none"} =>
            hook.fatal /\ hook.shown = "traceback" /\ hook.exited = <<1>>)

----------------------------------------------------------------------------
(* The sweep of start_app over every store and disk: the application has been
   constructed (login done, timer armed) and launch_dialog.start_app fires. *)

InitSweep ==
    /\ loopPc = "exec"
    /\ uiPc = "idle"
    /\ iters = 1
    /\ coreAlive = TRUE
    /\ coreExits = 0
    /\ exitCode = <<>>
    /\ exitArg = 0
    /\ args \in [silent : BOOLEAN, test_start : BOOLEAN]
    /\ userdata = [expires_at |-> Stamp(MaxTick * StepMs)]
    /\ lastDelta = [site |-> "init", exp |-> MaxTick * StepMs, now |-> 0,
                    delay |-> ExpiryDelay(MaxTick * StepMs, 0)]
    /\ pending = TimerStart(<<>>, ExpiryDelay(MaxTick * StepMs, 0))
    /\ timerObj = "live"
    /\ lastOp = "init"
    /\ installed \in [Apps -> IGames]
    /\ disk \in [Apps -> DiskFacts]
    /\ sweepLog = EmptySweepLog
    /\ mainwindow = "None"
    /\ tasks = 0
    /\ singletons = [signals |-> TRUE, args |-> TRUE, api_results |-> TRUE]
    /\ tmpDir = "empty"
    /\ teardownLog = <<>>
    /\ hook = NoHook
    /\ shopIn = NoShop /\ shopOut = NoShop
    /\ browseIn = NoBrowse /\ browseOut = NoBrowse

NextSweep == StartApp

SpecSweep == InitSweep /\ [][NextSweep]_vars

Range(f) == {f[x] : x \in DOMAIN f}

\* C4: the sweep uninstalls every record whose install path is missing with
\* keep_files=True (the disk is left as it is), runs neither the executable
\* check nor the needs_verification update for it, and no record is both
\* uninstalled and flagged in one sweep.
C4_MissingPathUninstalledOnly ==
    [][lastOp' = "start_app" =>
          /\ \A a \in DOMAIN installed :
                ~disk[a].path_exists =>
                    /\ [app |-> a, keep_files |-> TRUE] \in Range(sweepLog'.uninstalled)
                    /\ [app |-> a, keep_files |-> FALSE] \notin Range(sweepLog'.uninstalled)
                    /\ a \notin DOMAIN installed'
                    /\ disk'[a] = disk[a]
                    /\ a \notin Range(sweepLog'.checked)
                    /\ a \notin Range(sweepLog'.persisted)
          /\ \A a \in DOMAIN installed :
                ~(/\ a \in {u.app : u \in Range(sweepLog'.uninstalled)}
                  /\ a \in Range(sweepLog'.persisted))]_vars

\* one sweep has uninstalled a record with a missing path and flagged another
C4_Witness ==
    /\ lastOp = "start_app"
    /\ \E a, b \in Apps :
          /\ ~disk[a].path_exists /\ a \notin DOMAIN installed
          /\ sweepLog.uninstalled = <<[app |-> a, keep_files |-> TRUE]>>
          /\ b \in DOMAIN installed /\ sweepLog.persisted = <<b>>

\* C5: for a record whose install path exists the effective executable is the
\* non-empty override_exe, else the record's executable; when it (backslashes
\* to slashes, leading slashes stripped) is missing under the install path the
\* record gets needs_verification = True and is persisted, otherwise the
\* record is neither modified nor persisted.
C5_MissingExecutableFlagged ==
    [][lastOp' = "start_app" =>
          \A a \in DOMAIN installed :
             disk[a].path_exists =>
                LET eff == IF disk[a].override_exe # <<>>
                           THEN disk[a].override_exe
                           ELSE installed[a].executable
                    found == ExistsUnder(disk[a], NormalizeExe(eff))
                IN  /\ a \in DOMAIN installed'
                    /\ ~found =>
                          /\ installed'[a] =
                                [installed[a] EXCEPT !.needs_verification = TRUE]
                          /\ a \in Range(sweepLog'.persisted)
                    /\ found =>
                          /\ installed'[a] = installed[a]
                          /\ a \notin Range(sweepLog'.persisted)]_vars

\* one sweep has flagged a record through its override and left alone a record
\* whose executable, written with a backslash, is on disk
C5_Witness ==
    /\ lastOp = "start_app"
    /\ \E a, b \in DOMAIN installed :
          /\ disk[a].path_exists /\ disk[a].override_exe # <<>>
          /\ installed[a].needs_verification /\ a \in Range(sweepLog.persisted)
          /\ ~ExistsUnder(disk[a], NormalizeExe(disk[a].override_exe))
          /\ ExistsUnder(disk[a], NormalizeExe(installed[a].executable))
          /\ disk[b].path_exists /\ disk[b].override_exe = <<>>
          /\ installed[b].executable = <<"a", "\\", "b">>
          /\ ~installed[b].needs_verification /\ b \notin Range(sweepLog.persisted)

----------------------------------------------------------------------------
(* Text helpers of the storefront models: texts are sequences of characters *)

\* str.startswith(prefix)
StartsWith(s, prefix) ==
    Len(s) >= Len(prefix) /\ SubSeq(s, 1, Len(prefix)) = prefix

\* str.replace(old, new) for a non-empty old: every non-overlapping occurrence,
\* found from the left, is replaced.
RECURSIVE ReplaceAll(_, _, _)
ReplaceAll(s, old, new) ==
    IF s = <<>> THEN <<>>
    ELSE IF StartsWith(s, old)
         THEN new \o ReplaceAll(SubSeq(s, Len(old) + 1, Len(s)), old, new)
         ELSE <<Head(s)>> \o ReplaceAll(Tail(s), old, new)

Letters == <<<<"a", "A">>, <<"c", "C">>, <<"e", "E">>, <<"g", "G">>, <<"i", "I">>, <<"n", "N">>>>

UpperChar(c) ==
    IF \E i \in 1..Len(Letters) : Letters[i][1] = c
    THEN Letters[CHOOSE i \in 1..Len(Letters) : Letters[i][1] = c][2]
    ELSE c

LowerChar(c) ==
    IF \E i \in 1..Len(Letters) : Letters[i][2] = c
    THEN Letters[CHOOSE i \in 1..Len(Letters) : Letters[i][2] = c][1]
    ELSE c

\* str.capitalize(): first character upper-cased, the rest lower-cased
Capitalize(s) ==
    [i \in 1..Len(s) |-> IF i = 1 THEN UpperChar(s[i]) ELSE LowerChar(s[i])]

\* i.replace("_", " ").capitalize()
NormalizeTag(t) == Capitalize(ReplaceAll(t, <<"_">>, <<" ">>))

Has(d, k) == k \in DOMAIN d

\* dict.get(k, default)
Get(d, k, default) == IF Has(d, k) THEN d[k] ELSE default

----------------------------------------------------------------------------
(* ImageUrlModel.from_json *)

NoImages == [front_tall |-> "", offer_image_tall |-> "", thumbnail |-> "",
             front_wide |-> "", offer_image_wide |-> ""]

ImageField(type) ==
    CASE type = "Thumbnail" -> "thumbnail"
      [] type = "DieselStoreFrontTall" -> "front_tall"
      [] type = "DieselStoreFrontWide" -> "front_wide"
      [] type = "OfferImageTall" -> "offer_image_tall"
      [] type = "OfferImageWide" -> "offer_image_wide"
      [] OTHER -> "none"

RECURSIVE ImagesFrom(_, _)
ImagesFrom(tmp, items) ==
    IF items = <<>> THEN tmp
    ELSE LET item == Head(items)
             f == ImageField(item["type"])
         IN  ImagesFrom(IF f = "none" THEN tmp ELSE [tmp EXCEPT ![f] = item["url"]],
                        Tail(items))

ImageUrlModel_from_json(json_data) == ImagesFrom(NoImages, json_data)

----------------------------------------------------------------------------
(* ShopGame.from_json.  A JSON object is a function on its keys; socialLinks,
   whose iteration order shows in the result, is a sequence of <<key, value>>;
   the catalog document is [is_list, val]. *)

Raised(e) == [status |-> e]

Put(d, k, v) == [x \in (DOMAIN d) \cup {k} |-> IF x = k THEN v ELSE d[x]]

\* for product in api_data: if product["_title"] == "home": api_data = product; break
SelectHome(api) ==
    IF api.is_list /\ \E i \in 1..Len(api.val) : api.val[i]["_title"] = "home"
    THEN LET i == CHOOSE j \in 1..Len(api.val) :
                     /\ api.val[j]["_title"] = "home"
                     /\ \A k \in 1..(j - 1) : api.val[k]["_title"] # "home"
         IN  [is_list |-> FALSE, val |-> api.val[i]]
    ELSE api

\* for item in links: if item.startswith("link"): links.append((item.replace("link", ""), links[item]))
RECURSIVE LinksFrom(_)
LinksFrom(links) ==
    IF links = <<>> THEN <<>>
    ELSE LET item == Head(links)[1]
             link == <<"l", "i", "n", "k">>
         IN  (IF StartsWith(item, link)
              THEN <<<<ReplaceAll(item, link, <<>>), Head(links)[2]>>>>
              ELSE <<>>) \o LinksFrom(Tail(links))

\* for req in system["details"]: try: ...[req["title"]] = (req["minimum"], req["recommended"])
\* except KeyError: pass
RECURSIVE DetailsFrom(_, _)
DetailsFrom(m, details) ==
    IF details = <<>> THEN m
    ELSE LET req == Head(details)
         IN  DetailsFrom(
                 IF Has(req, "title") /\ Has(req, "minimum") /\ Has(req, "recommended")
                 THEN Put(m, req["title"], <<req["minimum"], req["recommended"]>>)
                 ELSE m,
                 Tail(details))

\* for i, system in enumerate(requirements.get("systems", [])): ...
RECURSIVE SystemsFrom(_, _)
SystemsFrom(reqs, systems) ==
    IF systems = <<>> THEN [status |-> "ok", reqs |-> reqs]
    ELSE LET system == Head(systems)
         IN  IF ~Has(system, "systemType")
             THEN SystemsFrom(reqs, Tail(systems))           \* except KeyError: continue
             ELSE IF ~Has(system, "details")
                  THEN Raised("KeyError")                    \* system["details"]
                  ELSE SystemsFrom(Put(reqs, system["systemType"],
                                       DetailsFrom(<<>>, system["details"])),
                                   Tail(systems))

\* for i in search_data["customAttributes"]: if i["key"] == "developerName": ...
RECURSIVE DeveloperFrom(_, _)
DeveloperFrom(dev, attrs) ==
    IF attrs = <<>> THEN dev
    ELSE DeveloperFrom(IF Head(attrs)["key"] = "developerName"
                       THEN Head(attrs)["value"] ELSE dev,
                       Tail(attrs))

ShopGame_from_json(api_data, search_data) ==
    LET a1 == SelectHome(api_data)
    IN
    IF a1.is_list THEN Raised("AttributeError")              \* list has no keys()
    ELSE
    LET api == IF Has(a1.val, "pages") THEN a1.val["pages"][1] ELSE a1.val
    IN
    IF ~Has(search_data, "keyImages") THEN Raised("KeyError")
    ELSE IF ~Has(api, "data") THEN Raised("KeyError")
    ELSE IF ~Has(api["data"], "socialLinks") THEN Raised("KeyError")
    ELSE IF ~Has(api["data"], "requirements") THEN Raised("KeyError")
    ELSE
    LET requirements == api["data"]["requirements"]
        sys == SystemsFrom(<<>>, Get(requirements, "systems", <<>>))
    IN
    IF sys.status # "ok" THEN sys
    ELSE IF ~Has(api["data"], "meta") THEN Raised("KeyError")
    ELSE
    LET meta == api["data"]["meta"]
        developer == Get(meta, "developer", "")
    IN
    IF developer = "" /\ ~Has(search_data, "customAttributes") THEN Raised("KeyError")
    ELSE IF ~Has(search_data, "price") THEN Raised("KeyError")
    ELSE IF ~Has(search_data["price"], "totalPrice") THEN Raised("KeyError")
    ELSE IF ~Has(search_data["price"]["totalPrice"], "fmtPrice") THEN Raised("KeyError")
    ELSE
    LET fmt == search_data["price"]["totalPrice"]["fmtPrice"]
    IN
    IF ~Has(fmt, "originalPrice") \/ ~Has(fmt, "discountPrice") THEN Raised("KeyError")
    ELSE IF ~Has(search_data, "namespace") THEN Raised("KeyError")
    ELSE IF ~Has(search_data, "id") THEN Raised("KeyError")
    ELSE
    [status |-> "ok",
     title |-> Get(search_data, "title", "Fail"),
     image_urls |-> ImageUrlModel_from_json(search_data["keyImages"]),
     links |-> LinksFrom(api["data"]["socialLinks"]),
     available_voice_langs |-> Get(requirements, "languages", "Failed"),
     reqs |-> sys.reqs,
     publisher |-> Get(meta, "publisher", ""),
     developer |-> IF developer = ""
                   THEN DeveloperFrom(developer, search_data["customAttributes"])
                   ELSE developer,
     price |-> fmt["originalPrice"],
     discount_price |-> fmt["discountPrice"],
     tags |-> LET tags == Get(meta, "tags", <<>>)
              IN  [i \in 1..Len(tags) |-> NormalizeTag(tags[i])],
     namespace |-> search_data["namespace"],
     offer_id |-> search_data["id"]]

----------------------------------------------------------------------------
(* Documents ShopGame.from_json is applied to: every subset of the optional
   keys present, in each shape of catalog document *)

OptKeys == {"keyImages", "socialLinks", "requirements", "meta", "developer",
            "customAttributes", "fmtPrice", "namespace", "id", "details",
            "systemType"}

Shapes == {"dict", "pages", "list_home", "list_no_home"}

EmptyDict == [x \in {} |-> x]

\* the entry k: v when flag is among the present keys P
Opt(P, flag, k, v) == IF flag \in P THEN k :> v ELSE EmptyDict

Requirement(title) == [title |-> title, minimum |-> "min", recommended |-> "rec"]

ProductDoc(P) ==
    ("_title" :> "home") @@
    ("data" :>
        (Opt(P, "socialLinks", "socialLinks",
             << <<(<<"l", "i", "n", "k", "A">>), "url_a">>,
                <<(<<"n", "a", "g">>), "url_b">> >>)
         @@ Opt(P, "requirements", "requirements",
                [languages |-> <<"en">>,
                 systems |->
                    << Opt(P, "systemType", "systemType", "Windows")
                         @@ Opt(P, "details", "details",
                                <<Requirement("CPU"), [title |-> "GPU", minimum |-> "min"]>>),
                       [systemType |-> "Mac", details |-> <<Requirement("CPU")>>] >>])
         @@ Opt(P, "meta", "meta",
                ("publisher" :> "Pub")
                @@ Opt(P, "developer", "developer", "Dev")
                @@ ("tags" :> << <<"i", "n", "_", "g">>, <<"A", "C">> >>))))

OtherPage == [_title |-> "about"]

CatalogDoc(shape, P) ==
    CASE shape = "dict" -> [is_list |-> FALSE, val |-> ProductDoc(P)]
      [] shape = "pages" ->
            [is_list |-> FALSE, val |-> [pages |-> <<ProductDoc(P), OtherPage>>]]
      [] shape = "list_home" ->
            [is_list |-> TRUE, val |-> <<OtherPage, ProductDoc(P)>>]
      [] shape = "list_no_home" ->
            [is_list |-> TRUE, val |-> <<OtherPage>>]

SearchDoc(P) ==
    ("title" :> "Game")
    @@ Opt(P, "keyImages", "keyImages",
           <<[type |-> "Thumbnail", url |-> "a"],
             [type |-> "DieselStoreFrontTall", url |-> "b"],
             [type |-> "Unknown", url |-> "c"]>>)
    @@ Opt(P, "customAttributes", "customAttributes",
           <<[key |-> "developerName", value |-> "AttrDev"]>>)
    @@ ("price" :> [totalPrice |->
                       Opt(P, "fmtPrice", "fmtPrice",
                           [originalPrice |-> "10", discountPrice |-> "5"])])
    @@ Opt(P, "namespace", "namespace", "ns")
    @@ Opt(P, "id", "id", "offer")

ShopInputs ==
    {[shape |-> sh, present |-> P, api |-> CatalogDoc(sh, P), search |-> SearchDoc(P)] :
        sh \in Shapes, P \in SUBSET OptKeys}

AppUnused ==
    /\ AppIdle
    /\ args = [silent |-> FALSE, test_start |-> FALSE]
    /\ installed = [a \in Apps |-> PlainGame]
    /\ disk = [a \in Apps |-> [path_exists |-> TRUE, files |-> {}, override_exe |-> <<>>]]
    /\ tmpDir = "empty"

InitShop ==
    /\ AppUnused
    /\ shopIn \in ShopInputs
    /\ shopOut = [status |-> "pending"]
    /\ browseIn = NoBrowse /\ browseOut = NoBrowse

\* ShopGame.from_json(api_data, search_data)
ParseShopGame ==
    /\ shopOut.status = "pending"
    /\ shopOut' = ShopGame_from_json(shopIn.api, shopIn.search)
    /\ UNCHANGED <<shopIn, appVars, browseVars>>

NextShop == ParseShopGame

SpecShop == InitShop /\ [][NextShop]_vars

\* C9: from_json never aborts on a missing key: it returns a record, and the
\* fields whose source key is absent hold their empty default.
C9_MissingKeysDefault ==
    shopOut.status # "pending" =>
        /\ shopOut.status = "ok"
        /\ ("keyImages" \notin shopIn.present => shopOut.image_urls = NoImages)
        /\ ("socialLinks" \notin shopIn.present => shopOut.links = <<>>)
        /\ ("requirements" \notin shopIn.present => shopOut.reqs = <<>>)
        /\ ("meta" \notin shopIn.present => shopOut.publisher = "" /\ shopOut.tags = <<>>)
        /\ ("fmtPrice" \notin shopIn.present =>
                shopOut.price = "" /\ shopOut.discount_price = "")
        /\ ("namespace" \notin shopIn.present => shopOut.namespace = "")
        /\ ("id" \notin shopIn.present => shopOut.offer_id = "")

\* what the code does hold to: a document with every referenced key parses, a
\* requirements block without systemType is dropped, a requirement entry
\* without its recommended value is skipped
ShopParsesCompleteDocs ==
    (shopOut.status # "pending" /\ shopIn.shape # "list_no_home"
        /\ OptKeys \ {"systemType", "developer"} \subseteq shopIn.present)
    => /\ shopOut.status = "ok"
       /\ DOMAIN shopOut.reqs =
             IF "systemType" \in shopIn.present THEN {"Windows", "Mac"} ELSE {"Mac"}
       /\ ("systemType" \in shopIn.present => DOMAIN shopOut.reqs["Windows"] = {"CPU"})
       /\ shopOut.developer = IF "developer" \in shopIn.present THEN "Dev" ELSE "AttrDev"
       /\ shopOut.links = << <<(<<"A">>), "url_a">> >>
       /\ shopOut.tags = << <<"I", "n", " ", "g">>, <<"A", "c">> >>
       /\ shopOut.image_urls = [NoImages EXCEPT !.thumbnail = "a", !.front_tall = "b"]

----------------------------------------------------------------------------
(* BrowseModel and its __dict__ property *)

MaxStart == 1       \* pagination offsets 0 .. MaxStart

DefaultCount == 30

Free == <<"f", "r", "e", "e">>
PriceMarker == <<"<", "p", "r", "i", "c", "e", ">">>

\* locale.upper()
Upper(s) == [i \in 1..Len(s) |-> UpperChar(s[i])]

\* the payload with onSale written whatever its value
BrowseModel_dict_FlagAlways(self) ==
    ("category" :> self.category)
    @@ ("count" :> self.count)
    @@ ("country" :> Upper(self.locale))
    @@ ("keywords" :> self.keywords)
    @@ ("locale" :> self.locale)
    @@ ("sortDir" :> self.sortDir)
    @@ ("allowCountries" :> Upper(self.locale))
    @@ ("start" :> self.start)
    @@ ("tag" :> self.tag)
    @@ ("withMapping" :> self.withMapping)
    @@ ("withPrice" :> self.withPrice)
    @@ ("releaseDate" :> self.date)
    @@ ("effectiveDate" :> self.date)
    @@ (IF self.price = Free THEN "freeGame" :> TRUE
        ELSE IF StartsWith(self.price, PriceMarker)
             THEN "priceRange" :> ReplaceAll(self.price, PriceMarker, <<>>)
             ELSE EmptyDict)
    @@ ("onSale" :> self.onSale)

BrowseModel_dict(self) ==
    ("category" :> self.category)
    @@ ("count" :> self.count)
    @@ ("country" :> Upper(self.locale))
    @@ ("keywords" :> self.keywords)
    @@ ("locale" :> self.locale)
    @@ ("sortDir" :> self.sortDir)
    @@ ("allowCountries" :> Upper(self.locale))
    @@ ("start" :> self.start)
    @@ ("tag" :> self.tag)
    @@ ("withMapping" :> self.withMapping)
    @@ ("withPrice" :> self.withPrice)
    @@ ("releaseDate" :> self.date)
    @@ ("effectiveDate" :> self.date)
    @@ (IF self.price = Free THEN "freeGame" :> TRUE
        ELSE IF StartsWith(self.price, PriceMarker)
             THEN "priceRange" :> ReplaceAll(self.price, PriceMarker, <<>>)
             ELSE EmptyDict)
    @@ (IF self.onSale THEN "onSale" :> TRUE ELSE EmptyDict)

Range09 == <<"[", "0", ",", "9", "]">>

Prices ==
    { <<>>,
      Free,
      PriceMarker \o Range09,
      PriceMarker,
      PriceMarker \o <<"a">> \o PriceMarker,
      <<"a">> \o PriceMarker \o Range09,
      Free \o <<"e">>,
      <<"F", "r", "e", "e">> }

BrowseModels ==
    [category : {"games/edition/base|bundles/games|editors|software/edition/base"},
     count : {DefaultCount},
     locale : {<<"e", "n">>, <<"c", "a">>},
     keywords : {"", "chess"},
     sortDir : {"DESC"},
     start : 0..MaxStart,
     tag : {""},
     withMapping : BOOLEAN,
     withPrice : {TRUE},
     date : {"[,now]"},
     price : Prices,
     onSale : BOOLEAN]

InitBrowse ==
    /\ AppUnused
    /\ shopIn = NoShop /\ shopOut = NoShop
    /\ browseIn \in BrowseModels
    /\ browseOut = [status |-> "pending"]

\* reading BrowseModel.__dict__
SerializeBrowse ==
    /\ browseOut.status = "pending"
    /\ browseOut' = [status |-> "ok", payload |-> BrowseModel_dict(browseIn)]
    /\ UNCHANGED <<browseIn, appVars, shopVars>>

NextBrowse == SerializeBrowse

SpecBrowse == InitBrowse /\ [][NextBrowse]_vars

BrowseFlags(payload, price, onSale) ==
    /\ (Has(payload, "freeGame") <=> price = Free)
    /\ (Has(payload, "freeGame") => payload["freeGame"] = TRUE)
    /\ (Has(payload, "priceRange") <=> StartsWith(price, PriceMarker))
    /\ ~(Has(payload, "freeGame") /\ Has(payload, "priceRange"))
    /\ (price = <<>> => ~Has(payload, "freeGame") /\ ~Has(payload, "priceRange"))
    /\ (Has(payload, "onSale") <=> onSale)
    /\ (Has(payload, "onSale") => payload["onSale"] = TRUE)

\* C10 as stated: freeGame (true) exactly for price "free"; priceRange exactly
\* for a price starting with "<price>", its value the price with that prefix
\* removed; never both; neither for the empty price; onSale exactly when the
\* flag is true.
C10_PriceRangeIsPrefixRemoved ==
    browseOut.status = "ok" =>
        /\ BrowseFlags(browseOut.payload, browseIn.price, browseIn.onSale)
        /\ (Has(browseOut.payload, "priceRange") =>
                browseOut.payload["priceRange"] =
                    SubSeq(browseIn.price, Len(PriceMarker) + 1, Len(browseIn.price)))

\* C10 amended: as stated, but the value of priceRange is the price with every
\* occurrence of "<price>" removed, not only the leading one.
C10_PriceRangeIsMarkerRemoved ==
    browseOut.status = "ok" =>
        /\ BrowseFlags(browseOut.payload, browseIn.price, browseIn.onSale)
        /\ (Has(browseOut.payload, "priceRange") =>
                browseOut.payload["priceRange"] =
                    ReplaceAll(browseIn.price, PriceMarker, <<>>))

\* a query with a second "<price>" inside its price and onSale set has been
\* serialized: priceRange keeps nothing of either marker
C10_Witness ==
    /\ browseOut.status = "ok"
    /\ browseIn.price = PriceMarker \o <<"a">> \o PriceMarker
    /\ browseIn.onSale
    /\ browseOut.payload["priceRange"] = <<"a">>
    /\ browseOut.payload["onSale"] = TRUE
    /\ ~Has(browseOut.payload, "freeGame")

====
